---- MODULE Spec2Model ----
(***************************************************************************)
(* Model of oemof/core/energy_system.py: the EnergySystem container with   *)
(* its lazily regrouped `groups` mapping, the ambient Entity.registry      *)
(* pointer, the `nodes` alias and the Simulation parameter record.         *)
(*                                                                         *)
(* The grouping callables (oemof.groupings.DEFAULT / Nodes) and the Entity *)
(* constructor (oemof.core.network.Entity) are imported by the file but    *)
(* live in modules that are not part of the sources at hand; they are      *)
(* modelled from the specification (sections 3, 4.1 and 4.2).              *)
(***************************************************************************)
EXTENDS Integers, Sequences, FiniteSets, TLC

\* ------------------------------------------------------------------ bounds
MaxEntities == 3        \* entities held by the containers together (add() stops there)
MaxInitEntities == 1    \* length of the `entities` keyword at construction
MaxNodesLen == 1        \* length of a list assigned to `nodes`
MaxGroupings == 2       \* length of the `groupings` keyword
MaxTimesteps == 2       \* length of a `timesteps` keyword
MaxRegionEntities == 3  \* length of a region's entity list (add_entities stops there)
MaxRegionArg == 2       \* length of a list handed to add_entities
MaxCopyDepth == 1       \* dumps an entity object has been through (restore stops there)

\* ---------------------------------------------------------------- universe
Containers == {"A", "B"}
NoRegistry == "None"
Entities == {"e1", "e2", "e3"}
Uids == {"u1", "u2"}
TagKeys == {"el", "heat"}
StrictKeys == {"s1"}
UserKeys == TagKeys \cup StrictKeys
AllKeys == Uids \cup UserKeys
NoEntity == "-"
Regions == {"R1", "R2"}

\* pickle.load builds new objects: an entity read back from a dump is a copy,
\* another object with the attributes of the one dumped. Chain[e][n + 1] is
\* the entity e after n dumps and loads. restore rebinds every attribute of
\* the container, so a container never holds copies made by two loads.
Chain ==
  [e \in Entities |->
     CASE e = "e1" -> <<"e1", "e1*", "e1**", "e1***">>
       [] e = "e2" -> <<"e2", "e2*", "e2**", "e2***">>
       [] e = "e3" -> <<"e3", "e3*", "e3**", "e3***">>]
Objects == UNION {{Chain[e][i] : i \in 1..4} : e \in Entities}
Orig(x) == CHOOSE e \in Entities : \E i \in 1..4 : Chain[e][i] = x
Depth(x) == (CHOOSE i \in 1..4 : Chain[Orig(x)][i] = x) - 1
CopyOf(x) == IF x = NoEntity THEN NoEntity ELSE Chain[Orig(x)][Depth(x) + 2]

\* Entity.uid; e1 and e2 share a uid, and a copy has the uid of its original.
uid == [x \in Objects |-> IF Orig(x) = "e3" THEN "u2" ELSE "u1"]

\* What a raw key function returns for an entity.
None == [tag |-> "none", keys |-> {}]
Raises == [tag |-> "raise", keys |-> {}]
OneKey(k) == [tag |-> "key", keys |-> {k}]
ManyKeys(S) == [tag |-> "list", keys |-> S]

\* The key functions a caller can pass in `groupings`. Their keys collide
\* neither with each other nor with the uids: colliding keys are a caller's
\* error that nothing detects and whose outcome is left open.
\*   "tags"   None for e1, a list of keys for e2, one key for e3;
\*   "strict" one key for e1, raises for e2, None for e3.
KeyFunctions == {"tags", "strict"}
key ==
  [ g \in KeyFunctions |->
      [ x \in Objects |->
          LET e == Orig(x) IN
          CASE g = "tags"   -> IF e = "e1" THEN None
                               ELSE IF e = "e2" THEN ManyKeys({"el", "heat"})
                               ELSE OneKey("heat")
            [] g = "strict" -> IF e = "e1" THEN OneKey("s1")
                               ELSE IF e = "e2" THEN Raises
                               ELSE None ] ]

\* Values stored in the groups dict.
Absent == [tag |-> "absent", e |-> NoEntity, s |-> {}]
Ent(e) == [tag |-> "entity", e |-> e, s |-> {}]
SetOf(S) == [tag |-> "set", e |-> NoEntity, s |-> S]
EmptyDict == [k \in AllKeys |-> Absent]

\* ---------------------------------------------------------- grouping calls
\* DEFAULT: groups[e.uid] = e, direct assignment.
BY_UID(e, d) == [ok |-> TRUE, d |-> [d EXCEPT ![uid[e]] = Ent(e)]]

\* Nodes(g): None is skipped, every returned key's bucket gets e as a member.
Grouping(g, e, d) ==
  LET k == key[g][e] IN
  IF k.tag = "raise" THEN [ok |-> FALSE, d |-> d]
  ELSE [ok |-> TRUE,
        d |-> [x \in AllKeys |-> IF x \in k.keys THEN SetOf(d[x].s \cup {e}) ELSE d[x]]]

CallGrouping(g, e, d) == IF g = "BY_UID" THEN BY_UID(e, d) ELSE Grouping(g, e, d)

RECURSIVE RegroupFrom(_, _, _, _, _)
RegroupFrom(entity, d, groupings, i, calls) ==
  IF i > Len(groupings) THEN [ok |-> TRUE, d |-> d, calls |-> calls]
  ELSE LET r == CallGrouping(groupings[i], entity, d)
           cs == Append(calls, <<groupings[i], entity>>)
       IN IF r.ok THEN RegroupFrom(entity, r.d, groupings, i + 1, cs)
          ELSE [ok |-> FALSE, d |-> r.d, calls |-> cs]

\* _regroup leaving the loop before the last grouping.
RegroupButLast(entity, d, groupings) ==
  RegroupFrom(entity, d, SubSeq(groupings, 1, Len(groupings) - 1), 1, <<>>)

\* _regroup starting the loop at the second grouping.
RegroupSkipFirst(entity, d, groupings) == RegroupFrom(entity, d, groupings, 2, <<>>)

\* _regroup going through the groupings from the last to the first.
RegroupReversed(entity, d, groupings) ==
  RegroupFrom(entity, d, [i \in 1..Len(groupings) |-> groupings[Len(groupings) + 1 - i]], 1, <<>>)

\* EnergySystem._regroup: for g in groupings: g(entity, groups); return groups
Regroup(entity, d, groupings) == RegroupFrom(entity, d, groupings, 1, <<>>)

\* The loop of __init__ over the entities passed at construction.
RECURSIVE InitFold(_, _, _, _, _)
InitFold(es, d, groupings, i, calls) ==
  IF i > Len(es) THEN [ok |-> TRUE, d |-> d, calls |-> calls]
  ELSE LET r == RegroupFrom(es[i], d, groupings, 1, calls)
       IN IF r.ok THEN InitFold(es, r.d, groupings, i + 1, r.calls)
          ELSE r

\* __init__ grouping none of the entities it was given.
InitGroupsNone(es, groupings) == [ok |-> TRUE, d |-> [k \in AllKeys |-> Absent], calls |-> <<>>]

\* __init__: self._groups = {}; for e in self.entities: for g in self._groupings: ...
InitGroups(es, groupings) == InitFold(es, EmptyDict, groupings, 1, <<>>)

\* --------------------------------------------------------------- sequences
RECURSIVE SeqsUpTo(_, _)
SeqsUpTo(S, n) ==
  IF n = 0 THEN {<<>>}
  ELSE LET shorter == SeqsUpTo(S, n - 1)
       IN shorter \cup {Append(s, x) : s \in {t \in shorter : Len(t) = n - 1}, x \in S}

Range(s) == {s[i] : i \in 1..Len(s)}
NoRepeat(s) == Cardinality(Range(s)) = Len(s)
GroupingArgs == {gs \in SeqsUpTo(KeyFunctions, MaxGroupings) : NoRepeat(gs)}

\* ------------------------------------------------------------------- state
VARIABLES
  registry,    \* Entity.registry / Node.registry
  created,     \* the Entity objects that exist
  status,      \* per container: "none", "ok" (constructed), "failed" (__init__ raised)
  entities,    \* per container: self.entities
  _groupings,  \* per container: self._groupings
  _groups,     \* per container: self._groups, a dict or a partial(_regroup, entity, ...)
  dict,        \* per container: contents of the dict object created in __init__
  added,       \* per container: the entities passed at construction and to add(), in order
  lastOp,      \* the operation performed last, its outcome and the grouping calls it made
  lastRet,     \* what the last operation returned
  oid,         \* per container: identity of the dict object self._groups leads to
  held,        \* a mapping returned by groups that the caller kept, as it was then
  lid,         \* per container: identity of the list object self.entities
  file,        \* the dump file at the default location
  regionMade,     \* the Region objects that exist
  regionEntities, \* per region: self.entities
  entityRegions   \* per entity: entity.regions

regionVars == <<regionMade, regionEntities, entityRegions>>
vars == <<registry, created, status, entities, _groupings, _groups, dict, added, lastOp, lastRet,
          oid, held, lid, file, regionVars>>

NoHeld == [tag |-> "none"]
NoFile == [tag |-> "none"]

Materialized == [tag |-> "dict", entity |-> NoEntity]
Pending(e) == [tag |-> "partial", entity |-> e]

NoRet == [tag |-> "none"]
NoArgs == [tag |-> "none"]
Op(kind, c, e, args, out, calls) ==
  [kind |-> kind, c |-> c, e |-> e, args |-> args, out |-> out, calls |-> calls]

Init ==
  /\ registry = NoRegistry
  /\ created = {}
  /\ status = [c \in Containers |-> "none"]
  /\ entities = [c \in Containers |-> <<>>]
  /\ _groupings = [c \in Containers |-> <<>>]
  /\ _groups = [c \in Containers |-> Materialized]
  /\ dict = [c \in Containers |-> EmptyDict]
  /\ added = [c \in Containers |-> <<>>]
  /\ lastOp = Op("init", NoRegistry, NoEntity, NoArgs, "ok", <<>>)
  /\ lastRet = NoRet
  /\ oid = [c \in Containers |-> 0]
  /\ held = NoHeld
  /\ lid = [c \in Containers |-> c]
  /\ file = NoFile
  /\ regionMade = {}
  /\ regionEntities = [r \in Regions |-> <<>>]
  /\ entityRegions = [e \in Entities |-> <<>>]

\* ----------------------------------------------------------------- actions
\* Entity.registry = self; Node.registry = self
Install(c) == registry' = c

\* The identity of a list object no other container holds.
NewList(c) ==
  IF \A d \in Containers \ {c} : lid[d] # c THEN c
  ELSE CHOOSE l \in Containers : \A d \in Containers \ {c} : lid[d] # l

\* Whether d.entities is the list object that c.entities is.
SameList(d, c) == lid[d] = lid[c]

\* list.append on the object self.entities: every holder of it sees the entity.
ListAppend(c, e) ==
  [d \in Containers |-> IF SameList(d, c) THEN Append(entities[d], e) ELSE entities[d]]

\* __init__ storing the list `l` (contents es) that it was passed, or the new
\* empty list of kwargs.get('entities', []).
ConstructWith(c, es, gs, l) ==
  /\ status[c] = "none"
  /\ Range(es) \subseteq created
  /\ LET groupings == <<"BY_UID">> \o gs
         r == InitGroups(es, groupings)
     IN /\ Install(c)
        /\ entities' = [entities EXCEPT ![c] = es]
        /\ _groupings' = [_groupings EXCEPT ![c] = groupings]
        /\ _groups' = [_groups EXCEPT ![c] = Materialized]
        /\ dict' = [dict EXCEPT ![c] = r.d]
        /\ added' = [added EXCEPT ![c] = es]
        /\ status' = [status EXCEPT ![c] = IF r.ok THEN "ok" ELSE "failed"]
        /\ lastOp' = Op("construct", c, NoEntity, [tag |-> "construct", entities |-> es, groupings |-> gs],
                      IF r.ok THEN "ok" ELSE "raise", r.calls)
  /\ lid' = [lid EXCEPT ![c] = l]
  /\ lastRet' = NoRet
  /\ UNCHANGED <<created, oid, file, held, regionVars>>

\* EnergySystem(entities=es, groupings=gs), es a list of the caller's own
Construct(c, es, gs) == ConstructWith(c, es, gs, NewList(c))

\* EnergySystem(entities=d.entities, groupings=gs)
ConstructFrom(c, d, gs) ==
  /\ d # c
  /\ status[d] = "ok"
  /\ ConstructWith(c, entities[d], gs, lid[d])

\* The property `groups`: while callable(self._groups): self._groups = self._groups()
Force(c) ==
  IF _groups[c].tag = "partial"
  THEN Regroup(_groups[c].entity, dict[c], _groupings[c])
  ELSE [ok |-> TRUE, d |-> dict[c], calls |-> <<>>]

\* Whether evaluating groups runs the body of the while loop.
Forces(c) == _groups[c].tag = "partial"

\* _regroup handing back a copy of the dict it was given.
CopiedDict(o) == o + 1

\* _regroup: return groups, the very dict it was given and has updated.
SameDict(o) == o

RECURSIVE SumLen(_, _)
SumLen(f, S) == IF S = {} THEN 0
                ELSE LET c == CHOOSE x \in S : TRUE IN Len(f[c]) + SumLen(f, S \ {c})
TotalAdded == SumLen(added, Containers)

\* add() composing the new partial over the unevaluated self._groups and so
\* dropping the fold that was pending.
AddToUnforced(c, e, kind) ==
  /\ TotalAdded < MaxEntities
  /\ entities' = ListAppend(c, e)
  /\ added' = [added EXCEPT ![c] = Append(@, e)]
  /\ _groups' = [_groups EXCEPT ![c] = Pending(e)]
  /\ lastOp' = Op(kind, c, e, NoArgs, "ok", <<>>)
  /\ lastRet' = NoRet
  /\ UNCHANGED <<registry, status, _groupings, dict, oid, lid, file, held, regionVars>>

\* add() putting the entity at the head of the entity list.
AddToFront(c, e, kind) ==
  /\ TotalAdded < MaxEntities
  /\ entities' = [d \in Containers |-> IF SameList(d, c) THEN <<e>> \o entities[d] ELSE entities[d]]
  /\ added' = [added EXCEPT ![c] = Append(@, e)]
  /\ LET f == Force(c)
     IN /\ dict' = [dict EXCEPT ![c] = f.d]
        /\ _groups' = [_groups EXCEPT ![c] = IF f.ok THEN Pending(e) ELSE @]
        /\ oid' = [oid EXCEPT ![c] = IF Forces(c) /\ f.ok THEN SameDict(@) ELSE @]
        /\ lastOp' = Op(kind, c, e, NoArgs, IF f.ok THEN "ok" ELSE "raise", f.calls)
  /\ lastRet' = NoRet
  /\ UNCHANGED <<registry, status, _groupings, lid, file, held, regionVars>>

\* EnergySystem.add(entity)
AddTo(c, e, kind) ==
  /\ TotalAdded < MaxEntities
  /\ entities' = ListAppend(c, e)
  /\ added' = [added EXCEPT ![c] = Append(@, e)]
  /\ LET f == Force(c)
     IN /\ dict' = [dict EXCEPT ![c] = f.d]
        /\ _groups' = [_groups EXCEPT ![c] = IF f.ok THEN Pending(e) ELSE @]
        /\ oid' = [oid EXCEPT ![c] = IF Forces(c) /\ f.ok THEN SameDict(@) ELSE @]
        /\ lastOp' = Op(kind, c, e, NoArgs, IF f.ok THEN "ok" ELSE "raise", f.calls)
  /\ lastRet' = NoRet
  /\ UNCHANGED <<registry, status, _groupings, lid, file, held, regionVars>>

Add(c, e) ==
  /\ status[c] = "ok"
  /\ e \in created
  /\ AddTo(c, e, "add")
  /\ UNCHANGED created

\* Entity(uid=...): the new entity registers itself with the active registry.
NewEntity(e) ==
  /\ e \notin created
  /\ created' = created \cup {e}
  /\ IF registry = NoRegistry
     THEN /\ lastOp' = Op("entity", NoRegistry, e, NoArgs, "ok", <<>>)
          /\ lastRet' = NoRet
          /\ UNCHANGED <<registry, status, entities, _groupings, _groups, dict, added,
                         oid, lid, file, held, regionVars>>
     ELSE AddTo(registry, e, "entity")

\* groups returning self._groups() without storing it.
ReadGroupsUncached(c) ==
  /\ status[c] = "ok"
  /\ LET f == Force(c)
     IN /\ dict' = [dict EXCEPT ![c] = f.d]
        /\ lastOp' = Op("groups", c, NoEntity, NoArgs, IF f.ok THEN "ok" ELSE "raise", f.calls)
        /\ lastRet' = IF f.ok THEN [tag |-> "groups", val |-> f.d] ELSE NoRet
  /\ UNCHANGED <<registry, created, status, entities, _groupings, _groups, added,
                 oid, lid, file, held, regionVars>>

\* groups catching the failure of a fold and giving up the partial.
ReadGroupsDropFailed(c) ==
  /\ status[c] = "ok"
  /\ LET f == Force(c)
     IN /\ dict' = [dict EXCEPT ![c] = f.d]
        /\ _groups' = [_groups EXCEPT ![c] = Materialized]
        /\ lastOp' = Op("groups", c, NoEntity, NoArgs, IF f.ok THEN "ok" ELSE "raise", f.calls)
        /\ lastRet' = IF f.ok THEN [tag |-> "groups", val |-> f.d] ELSE NoRet
  /\ UNCHANGED <<registry, created, status, entities, _groupings, added,
                 oid, lid, file, held, regionVars>>

\* es.groups
ReadGroups(c) ==
  /\ status[c] = "ok"
  /\ LET f == Force(c)
     IN /\ dict' = [dict EXCEPT ![c] = f.d]
        /\ _groups' = [_groups EXCEPT ![c] = IF f.ok THEN Materialized ELSE @]
        /\ oid' = [oid EXCEPT ![c] = IF Forces(c) /\ f.ok THEN SameDict(@) ELSE @]
        /\ lastOp' = Op("groups", c, NoEntity, NoArgs, IF f.ok THEN "ok" ELSE "raise", f.calls)
        /\ lastRet' = IF f.ok THEN [tag |-> "groups", val |-> f.d] ELSE NoRet
  /\ UNCHANGED <<registry, created, status, entities, _groupings, added, lid, file, held, regionVars>>

\* held = es.groups: the caller keeps the mapping the read returns.
KeepGroups(c) ==
  /\ status[c] = "ok"
  /\ LET f == Force(c)
         o == IF Forces(c) /\ f.ok THEN SameDict(oid[c]) ELSE oid[c]
     IN /\ dict' = [dict EXCEPT ![c] = f.d]
        /\ _groups' = [_groups EXCEPT ![c] = IF f.ok THEN Materialized ELSE @]
        /\ oid' = [oid EXCEPT ![c] = o]
        /\ lastOp' = Op("groups", c, NoEntity, NoArgs, IF f.ok THEN "ok" ELSE "raise", f.calls)
        /\ lastRet' = IF f.ok THEN [tag |-> "groups", val |-> f.d] ELSE NoRet
        /\ held' = IF f.ok THEN [tag |-> "held", c |-> c, oid |-> o, seen |-> f.d] ELSE held
  /\ UNCHANGED <<registry, created, status, entities, _groupings, added, lid, file, regionVars>>

\* es.nodes
ReadNodes(c) ==
  /\ status[c] = "ok"
  /\ lastOp' = Op("nodes", c, NoEntity, NoArgs, "ok", <<>>)
  /\ lastRet' = [tag |-> "seq", val |-> entities[c]]
  /\ UNCHANGED <<registry, created, status, entities, _groupings, _groups, dict, added,
                 oid, lid, file, held, regionVars>>

\* The nodes setter storing the list `l` (contents value) that is assigned.
SetNodesTo(c, value, l) ==
  /\ status[c] = "ok"
  /\ Range(value) \subseteq created
  /\ entities' = [entities EXCEPT ![c] = value]
  /\ lid' = [lid EXCEPT ![c] = l]
  /\ lastOp' = Op("set_nodes", c, NoEntity, [tag |-> "value", value |-> value], "ok", <<>>)
  /\ lastRet' = NoRet
  /\ UNCHANGED <<registry, created, status, _groupings, _groups, dict, added,
                 oid, file, held, regionVars>>

\* The nodes setter also starting the groups over.
SetNodesRegroup(c, value) ==
  /\ status[c] = "ok"
  /\ Range(value) \subseteq created
  /\ entities' = [entities EXCEPT ![c] = value]
  /\ lid' = [lid EXCEPT ![c] = NewList(c)]
  /\ _groups' = [_groups EXCEPT ![c] = Materialized]
  /\ dict' = [dict EXCEPT ![c] = EmptyDict]
  /\ lastOp' = Op("set_nodes", c, NoEntity, [tag |-> "value", value |-> value], "ok", <<>>)
  /\ lastRet' = NoRet
  /\ UNCHANGED <<registry, created, status, _groupings, added, oid, file, held, regionVars>>

\* es.nodes = value, value a list of the caller's own
SetNodes(c, value) == SetNodesTo(c, value, NewList(c))

\* c.nodes = d.nodes
SetNodesFrom(c, d) ==
  /\ d # c
  /\ status[d] = "ok"
  /\ SetNodesTo(c, entities[d], lid[d])

\* The identity of a new dict object: one the caller holds no reference to.
NewDict(c) ==
  IF held.tag = "held" /\ held.c = c /\ held.oid = 0 THEN 1 ELSE 0

\* The entity objects a dump holds.
Dumped(f) ==
  {f.entities[i] : i \in 1..Len(f.entities)} \cup {f.added[i] : i \in 1..Len(f.added)}
    \cup (UNION {f.dict[k].s : k \in AllKeys})
    \cup {f.dict[k].e : k \in {x \in AllKeys : f.dict[x].tag = "entity"}}
    \cup (IF f._groups.tag = "partial" THEN {f._groups.entity} ELSE {})

\* What pickle.load makes of the dumped attributes: every entity object in
\* them is a new one, the same new one wherever the dump had the same object.
Unpickled(f) ==
  [tag |-> "dump",
   entities |-> [i \in 1..Len(f.entities) |-> CopyOf(f.entities[i])],
   _groupings |-> f._groupings,
   _groups |-> [tag |-> f._groups.tag, entity |-> CopyOf(f._groups.entity)],
   dict |-> [k \in AllKeys |->
               [tag |-> f.dict[k].tag, e |-> CopyOf(f.dict[k].e),
                s |-> {CopyOf(x) : x \in f.dict[k].s}]],
   added |-> [i \in 1..Len(f.added) |-> CopyOf(f.added[i])]]

\* The contents of self.__dict__ as pickle.dump writes them.
Pickled(c) ==
  [tag |-> "dump", entities |-> entities[c], _groupings |-> _groupings[c],
   _groups |-> _groups[c], dict |-> dict[c], added |-> added[c]]

\* es.dump(): pickle.dump(self.__dict__, open(<default path>, 'wb'))
Dump(c) ==
  /\ status[c] = "ok"
  /\ file' = Pickled(c)
  /\ lastOp' = Op("dump", c, NoEntity, NoArgs, "ok", <<>>)
  /\ lastRet' = [tag |-> "msg", val |-> "Attributes dumped to"]
  /\ UNCHANGED <<registry, created, status, entities, _groupings, _groups, dict, added,
                 oid, lid, held, regionVars>>

\* es.restore(): self.__dict__ = pickle.load(open(<default path>, 'rb')).
\* The attributes are rebound to the unpickled objects: a new list and a new
\* dict holding copies of the entities dumped; open() raises when there is
\* no file.
Restore(c) ==
  /\ status[c] = "ok"
  /\ file # NoFile => \A x \in Dumped(file) : Depth(x) < MaxCopyDepth
  /\ IF file = NoFile
     THEN /\ lastOp' = Op("restore", c, NoEntity, NoArgs, "raise", <<>>)
          /\ lastRet' = NoRet
          /\ UNCHANGED <<entities, _groupings, _groups, dict, added, oid, lid>>
     ELSE LET u == Unpickled(file)
          IN /\ entities' = [entities EXCEPT ![c] = u.entities]
             /\ _groupings' = [_groupings EXCEPT ![c] = u._groupings]
             /\ _groups' = [_groups EXCEPT ![c] = u._groups]
             /\ dict' = [dict EXCEPT ![c] = u.dict]
             /\ added' = [added EXCEPT ![c] = u.added]
             /\ oid' = [oid EXCEPT ![c] = NewDict(c)]
             /\ lid' = [lid EXCEPT ![c] = NewList(c)]
             /\ lastOp' = Op("restore", c, NoEntity, NoArgs, "ok", <<>>)
             /\ lastRet' = [tag |-> "msg", val |-> "Attributes restored from"]
  /\ UNCHANGED <<registry, created, status, file, held, regionVars>>

\* Simulation(timesteps=..., solver=...); an absent keyword is NoArg.
NoArg == [given |-> FALSE, val |-> <<>>]
Arg(v) == [given |-> TRUE, val |-> v]
Get(kw, default) == IF kw.given THEN kw.val ELSE default
TimestepArgs == {NoArg} \cup {Arg(s) : s \in SeqsUpTo({1}, MaxTimesteps)}
NoSolver == [given |-> FALSE, val |-> ""]
SolverArgs == {NoSolver, Arg("gurobi")}

Simulation(timesteps, solver) ==
  /\ lastOp' = Op("simulation", NoRegistry, NoEntity,
                  [tag |-> "kwargs", timesteps |-> timesteps, solver |-> solver],
                  IF ~timesteps.given THEN "raise" ELSE "ok", <<>>)
  /\ lastRet' = IF ~timesteps.given THEN NoRet
                ELSE [tag |-> "simulation", solver |-> Get(solver, "glpk"),
                      debug |-> FALSE, verbose |-> FALSE, duals |-> FALSE,
                      relaxed |-> FALSE, fast_build |-> FALSE,
                      timesteps |-> timesteps.val]
  /\ UNCHANGED <<registry, created, status, entities, _groupings, _groups, dict, added,
                 oid, lid, file, held, regionVars>>

\* The loop of add_entities appending the region without looking.
RECURSIVE BackReferenceAlways(_, _, _, _)
BackReferenceAlways(r, es, regs, i) ==
  IF i > Len(es) THEN regs
  ELSE BackReferenceAlways(r, es, [regs EXCEPT ![es[i]] = Append(@, r)], i + 1)

\* add_entities: for entity in entities:
\*                 if self not in entity.regions: entity.regions.append(self)
RECURSIVE BackReference(_, _, _, _)
BackReference(r, es, regs, i) ==
  IF i > Len(es) THEN regs
  ELSE BackReference(r, es,
                     IF r \in Range(regs[es[i]]) THEN regs
                     ELSE [regs EXCEPT ![es[i]] = Append(@, r)],
                     i + 1)

RegionOp(kind, r, es) ==
  Op(kind, NoRegistry, NoEntity, [tag |-> "region", region |-> r, entities |-> es], "ok", <<>>)

\* Region.add_entities(entities)
add_entities(r, es) ==
  /\ r \in regionMade
  /\ Range(es) \subseteq created
  /\ Len(regionEntities[r]) + Len(es) <= MaxRegionEntities
  /\ regionEntities' = [regionEntities EXCEPT ![r] = @ \o es]
  /\ entityRegions' = BackReference(r, es, entityRegions, 1)
  /\ lastOp' = RegionOp("add_entities", r, es)
  /\ lastRet' = NoRet
  /\ UNCHANGED <<registry, created, status, entities, _groupings, _groups, dict, added,
                 oid, lid, file, held, regionMade>>

\* Region(entities=es): self.entities = []; self.add_entities(es)
NewRegion(r, es) ==
  /\ r \notin regionMade
  /\ Range(es) \subseteq created
  /\ regionMade' = regionMade \cup {r}
  /\ regionEntities' = [regionEntities EXCEPT ![r] = <<>> \o es]
  /\ entityRegions' = BackReference(r, es, entityRegions, 1)
  /\ lastOp' = RegionOp("region", r, es)
  /\ lastRet' = NoRet
  /\ UNCHANGED <<registry, created, status, entities, _groupings, _groups, dict, added,
                 oid, lid, file, held>>

\* Regions and the entities put into them.
NextRegion ==
  \/ \E e \in Entities : NewEntity(e)
  \/ \E r \in Regions, es \in SeqsUpTo(Entities, MaxRegionArg) : NewRegion(r, es)
  \/ \E r \in Regions, es \in SeqsUpTo(Entities, MaxRegionArg) : add_entities(r, es)

SpecRegion == Init /\ [][NextRegion]_vars

\* One container and everything a caller can do with it.
Next ==
  \/ \E es \in SeqsUpTo(Entities, MaxInitEntities), gs \in GroupingArgs : Construct("A", es, gs)
  \/ \E e \in Entities : Add("A", e)
  \/ \E e \in Entities : NewEntity(e)
  \/ ReadGroups("A")
  \/ ReadNodes("A")
  \/ \E value \in SeqsUpTo(Entities, MaxNodesLen) : SetNodes("A", value)
  \/ \E timesteps \in TimestepArgs, solver \in SolverArgs : Simulation(timesteps, solver)

Spec == Init /\ [][Next]_vars

\* Several containers taking turns as the registry.
NextRegistry ==
  \/ \E c \in Containers, es \in SeqsUpTo(Entities, MaxInitEntities), gs \in GroupingArgs :
       Construct(c, es, gs)
  \/ \E c \in Containers, e \in Entities : Add(c, e)
  \/ \E e \in Entities : NewEntity(e)
  \/ \E c \in Containers : ReadGroups(c)
  \/ \E c \in Containers, d \in Containers, gs \in GroupingArgs : ConstructFrom(c, d, gs)
  \/ \E c \in Containers, d \in Containers : SetNodesFrom(c, d)

SpecRegistry == Init /\ [][NextRegistry]_vars

\* One container and a caller that keeps mappings it has read.
NextHold ==
  \/ \E es \in SeqsUpTo(Entities, MaxInitEntities), gs \in GroupingArgs : Construct("A", es, gs)
  \/ \E e \in Entities : Add("A", e)
  \/ \E e \in Entities : NewEntity(e)
  \/ ReadGroups("A")
  \/ KeepGroups("A")

SpecHold == Init /\ [][NextHold]_vars

\* One container that is dumped to and restored from the default file.
NextDump ==
  \/ \E es \in SeqsUpTo(Entities, MaxInitEntities), gs \in GroupingArgs : Construct("A", es, gs)
  \/ \E e \in Entities : Add("A", e)
  \/ \E e \in Entities : NewEntity(e)
  \/ ReadGroups("A")
  \/ Dump("A")
  \/ Restore("A")

SpecDump == Init /\ [][NextDump]_vars

\* ------------------------------------------------------------- properties
IsAdd(op) == op.kind \in {"add", "entity"} /\ op.c # NoRegistry
ReadReturned == lastOp.kind = "groups" /\ lastOp.out = "ok"
UserGroupings(c) == Range(_groupings[c]) \ {"BY_UID"}

\* The keys a grouping yields for an entity, and the keys it can yield at all.
Yields(g, e) == IF g = "BY_UID" THEN {uid[e]} ELSE key[g][e].keys
KeySpace(g) == UNION {Yields(g, e) : e \in Entities}
Member(e, v) == v = Ent(e) \/ e \in v.s

\* The last entity of a sequence that has uid u, if any.
WithUid(es, u) == {i \in 1..Len(es) : uid[es[i]] = u}
LastWithUid(es, u) == es[CHOOSE i \in WithUid(es, u) : \A j \in WithUid(es, u) : j <= i]

\* C1 as stated: after a groups read, every entity given at construction or
\* added is a member of the bucket of exactly the keys that each grouping of
\* the container, the default one included, yields for it.
C1_AsStated ==
  ReadReturned =>
    \A e \in Range(added[lastOp.c]), g \in Range(_groupings[lastOp.c]) :
      \A k \in KeySpace(g) : Member(e, lastRet.val[k]) <=> k \in Yields(g, e)

\* C1 amended: after a groups read, the bucket of every key of a user
\* grouping is exactly the set of entities given or added for which that
\* grouping yielded the key (no bucket if there is none), and under the
\* default grouping an entity is stored under its uid unless an entity with
\* the same uid was added after it.
C1_GroupMembership ==
  ReadReturned =>
    LET c == lastOp.c
        es == added[c]
        m == lastRet.val
    IN /\ \A g \in UserGroupings(c) : \A k \in KeySpace(g) :
            LET having == {e \in Range(es) : k \in Yields(g, e)}
            IN m[k] = IF having = {} THEN Absent ELSE SetOf(having)
       /\ \A e \in Range(es) :
            /\ e = LastWithUid(es, uid[e]) => Member(e, m[uid[e]])
            /\ \A u \in Uids \ {uid[e]} : ~Member(e, m[u])

\* C1 witness: a read returned a mapping in which a user grouping's bucket has
\* two members and another entity of the container is left out of it.
C1_Witness ==
  /\ ReadReturned
  /\ lastRet.val["heat"] = SetOf({"e2", "e3"})
  /\ lastRet.val["el"] = SetOf({"e2"})
  /\ "e1" \in Range(added[lastOp.c])

\* C2: with only the default grouping, after a groups read every uid of an
\* added entity maps to the entity added last with that uid (so to the entity
\* itself when its uid is unique).
C2_UidLastWriter ==
  (ReadReturned /\ _groupings[lastOp.c] = <<"BY_UID">>) =>
    \A e \in Range(added[lastOp.c]) :
      lastRet.val[uid[e]] = Ent(LastWithUid(added[lastOp.c], uid[e]))

\* C2 witness: e1 and then e2, which share a uid, were added next to e3 and
\* the read maps the shared uid to e2.
C2_Witness ==
  /\ ReadReturned
  /\ _groupings[lastOp.c] = <<"BY_UID">>
  /\ added[lastOp.c] = <<"e1", "e3", "e2">>
  /\ lastRet.val["u1"] = Ent("e2")
  /\ lastRet.val["u2"] = Ent("e3")

\* C3 as stated: add(e) does not raise when a grouping of the container
\* raises for e, and a groups read raises when the pending fold is that of
\* such an entity.
RaisesFor(c, e) == \E g \in UserGroupings(c) : key[g][e].tag = "raise"
C3_AsStated ==
  /\ (IsAdd(lastOp) /\ RaisesFor(lastOp.c, lastOp.e)) => lastOp.out = "ok"
  /\ (lastOp.kind = "groups" /\ _groups[lastOp.c].tag = "partial"
        /\ RaisesFor(lastOp.c, _groups[lastOp.c].entity)) => lastOp.out = "raise"

\* The mapping of the run that reads groups after every single add: each
\* read folds the entity just added into the mapping read before.
RECURSIVE EagerRun(_, _, _)
EagerRun(es, groupings, n) ==
  IF n = 0 THEN EmptyDict
  ELSE Regroup(es[n], EagerRun(es, groupings, n - 1), groupings).d

\* C4: whenever a groups read returns, wherever earlier reads fell between the
\* adds, the mapping is that of the run reading groups after every add.
C4_ReadOrderIrrelevant ==
  ReadReturned =>
    lastRet.val = EagerRun(added[lastOp.c], _groupings[lastOp.c], Len(added[lastOp.c]))

\* C4 witness: a read after three adds under two user groupings that folded
\* an entity into non-empty buckets.
C4_Witness ==
  /\ ReadReturned
  /\ Len(added[lastOp.c]) = MaxEntities
  /\ Len(_groupings[lastOp.c]) = 3
  /\ Len(lastOp.calls) = 3
  /\ lastRet.val["s1"] # Absent

\* C5: self._groups is a dict or a partial; it is the empty dict after a
\* construction without entities, a partial after every add() that returns
\* and a dict after every groups read that returns.
C5_TwoStates ==
  /\ \A c \in Containers : _groups[c].tag \in {"dict", "partial"}
  /\ (lastOp.kind = "construct" /\ lastOp.args.entities = <<>>) =>
       (lastOp.out = "ok" /\ _groups[lastOp.c] = Materialized /\ dict[lastOp.c] = EmptyDict)
  /\ (IsAdd(lastOp) /\ lastOp.out = "ok") => _groups[lastOp.c] = Pending(lastOp.e)
  /\ ReadReturned => (_groups[lastOp.c] = Materialized /\ lastRet.val = dict[lastOp.c])

\* C5 witness: a groups read that had a pending fold to evaluate has returned.
C5_Witness ==
  /\ ReadReturned
  /\ lastOp.calls # <<>>
  /\ _groups[lastOp.c] = Materialized

\* C6 as stated: an added entity for which a user grouping returns None is in
\* no bucket of that grouping's keys and groups[e.uid] holds it.
C6_AsStated ==
  ReadReturned =>
    \A e \in Range(added[lastOp.c]), g \in UserGroupings(lastOp.c) :
      key[g][e].tag = "none" =>
        /\ \A k \in KeySpace(g) : ~Member(e, lastRet.val[k])
        /\ lastRet.val[uid[e]] = Ent(e)

\* C6 amended: such an entity is in no bucket of that grouping's keys, and
\* groups[e.uid] holds it unless an entity with the same uid was added later.
C6_NoneSkipped ==
  ReadReturned =>
    \A e \in Range(added[lastOp.c]), g \in UserGroupings(lastOp.c) :
      key[g][e].tag = "none" =>
        /\ \A k \in KeySpace(g) : ~Member(e, lastRet.val[k])
        /\ e = LastWithUid(added[lastOp.c], uid[e]) => lastRet.val[uid[e]] = Ent(e)

\* C6 witness: e1, for which "tags" returns None, was given at construction
\* next to e3; the read has e1 under its uid and only e3 in a bucket.
C6_Witness ==
  /\ ReadReturned
  /\ "tags" \in UserGroupings(lastOp.c)
  /\ added[lastOp.c] = <<"e1", "e3">>
  /\ lastRet.val["u1"] = Ent("e1")
  /\ lastRet.val["heat"] = SetOf({"e3"})
  /\ lastRet.val["el"] = Absent

\* C7 as stated: a construction makes the new container the registry and
\* leaves the entity list and groups of every other container as they were; a
\* new entity is appended to the registry's list and to no other.
OthersUntouched(c) ==
  \A o \in Containers \ {c} :
    entities'[o] = entities[o] /\ _groups'[o] = _groups[o] /\ dict'[o] = dict[o]
C7_AsStated ==
  [][ /\ \A c \in Containers :
           (status[c] = "none" /\ status'[c] # "none") =>
             /\ registry' = c
             /\ entities'[c] = lastOp'.args.entities
             /\ OthersUntouched(c)
      /\ (created' # created /\ registry # NoRegistry) =>
           /\ registry' = registry
           /\ entities'[registry] = Append(entities[registry], lastOp'.e)
           /\ OthersUntouched(registry) ]_vars

\* C8: reading nodes returns self.entities; assigning nodes makes the value
\* the entity list and changes neither self._groups, the dict, nor what the
\* next groups read evaluates and returns.
C8_NodesAlias ==
  [][ /\ lastOp'.kind = "nodes" =>
           (lastRet'.val = entities'[lastOp'.c] /\ entities' = entities)
      /\ lastOp'.kind = "set_nodes" =>
           /\ entities'[lastOp'.c] = lastOp'.args.value
           /\ _groups' = _groups
           /\ dict' = dict
           /\ \A c \in Containers : Force(c)' = Force(c) ]_vars

\* C8 witness: nodes was assigned while a fold was pending and the entity
\* list no longer is the list of added entities.
C8_Witness ==
  /\ lastOp.kind = "set_nodes"
  /\ _groups[lastOp.c].tag = "partial"
  /\ Len(added[lastOp.c]) = 2
  /\ entities[lastOp.c] = <<>>

\* C9 as stated: Simulation(...) raises exactly when timesteps is absent or
\* an empty sequence.
C9_AsStated ==
  lastOp.kind = "simulation" =>
    (lastOp.out = "raise" <=>
       (~lastOp.args.timesteps.given \/ lastOp.args.timesteps.val = <<>>))

\* C10 as stated: no grouping function is invoked during an add() call.
C10_AsStated == IsAdd(lastOp) => lastOp.calls = <<>>

\* C11 as stated: an add() call that appended its entity to the entity list
\* has also enqueued the entity's fold, whether the call returned or raised.
C11_AsStated ==
  (IsAdd(lastOp) /\ entities[lastOp.c] # <<>>
     /\ entities[lastOp.c][Len(entities[lastOp.c])] = lastOp.e)
    => _groups[lastOp.c] = Pending(lastOp.e)

\* The grouping calls of one fold of entity e, in the order of the groupings.
FoldCalls(e, groupings) == [i \in 1..Len(groupings) |-> <<groupings[i], e>>]
IsPrefix(s, t) == Len(s) <= Len(t) /\ s = SubSeq(t, 1, Len(s))
RECURSIVE FoldCallsOfAll(_, _, _)
FoldCallsOfAll(es, groupings, n) ==
  IF n = 0 THEN <<>> ELSE FoldCallsOfAll(es, groupings, n - 1) \o FoldCalls(es[n], groupings)

\* C12: the groupings of a container are the default uid grouping followed
\* by the groupings given, in the order given; every forcing, by a groups
\* read or inside add(), evaluates the one fold that is pending, that of the
\* entity added last before, calling the groupings on it in that order (up to
\* the first that raises); an add() that returns leaves the fold of its own
\* entity pending, so folds are evaluated in the order of insertion.
C12_FoldOrder ==
  [][ /\ lastOp'.kind = "construct" =>
           /\ _groupings'[lastOp'.c] = <<"BY_UID">> \o lastOp'.args.groupings
           /\ IsPrefix(lastOp'.calls,
                       FoldCallsOfAll(lastOp'.args.entities, _groupings'[lastOp'.c],
                                      Len(lastOp'.args.entities)))
           /\ lastOp'.out = "ok" =>
                Len(lastOp'.calls) =
                  Len(lastOp'.args.entities) * Len(_groupings'[lastOp'.c])
      /\ \A c \in Containers :
           (lastOp'.kind \in {"groups", "add", "entity"} /\ lastOp'.c = c) =>
             /\ lastOp'.calls # <<>> => _groups[c].tag = "partial"
             /\ _groups[c].tag = "partial" =>
                  /\ IsPrefix(lastOp'.calls, FoldCalls(_groups[c].entity, _groupings[c]))
                  /\ lastOp'.out = "ok" =>
                       lastOp'.calls = FoldCalls(_groups[c].entity, _groupings[c])
                  /\ lastOp'.out = "raise" =>
                       key[lastOp'.calls[Len(lastOp'.calls)][1]][_groups[c].entity] = Raises
             /\ (lastOp'.kind # "groups" /\ lastOp'.out = "ok") =>
                  _groups'[c] = Pending(lastOp'.e) ]_vars

\* C12 witness: a read folded e3 with the default grouping first and then
\* "strict" and "tags", the order in which they were given.
C12_Witness ==
  /\ ReadReturned
  /\ _groupings[lastOp.c] = <<"BY_UID", "strict", "tags">>
  /\ lastOp.calls = << <<"BY_UID", "e3">>, <<"strict", "e3">>, <<"tags", "e3">> >>
  /\ Len(added[lastOp.c]) = 3

\* C13: a groups read of a container whose self._groups is a dict calls no
\* grouping function, returns that dict and changes nothing of the
\* container; once a groups read has returned, the next evaluation of groups
\* is such a read and returns the same mapping.
C13_MaterializedReadNoOp ==
  /\ [](ReadReturned =>
          Force(lastOp.c) = [ok |-> TRUE, d |-> lastRet.val, calls |-> <<>>])
  /\ [][ \A c \in Containers :
        (lastOp'.kind = "groups" /\ lastOp'.c = c) =>
          /\ _groups[c].tag = "dict" =>
               /\ lastOp'.out = "ok"
               /\ lastOp'.calls = <<>>
               /\ lastRet'.val = dict[c]
               /\ <<registry, created, status, entities, _groupings, _groups, dict, added>>'
                    = <<registry, created, status, entities, _groupings, _groups, dict, added>>
          /\ (ReadReturned /\ lastOp.c = c) =>
               (_groups[c].tag = "dict" /\ lastOp'.calls = <<>> /\ lastRet' = lastRet) ]_vars

\* C13 witness: a read that called no grouping function returned the mapping
\* of three added entities, so an earlier read had evaluated the last fold.
C13_Witness ==
  /\ ReadReturned
  /\ lastOp.calls = <<>>
  /\ Len(added[lastOp.c]) = 3
  /\ Len(_groupings[lastOp.c]) = 3
  /\ lastRet.val # EmptyDict

\* C14: an add() call or a groups read removes nothing: the entity list
\* before the step is a prefix of the list after it (add() appends exactly
\* its entity, a read leaves the list alone), and every key of the mapping
\* and every member of a bucket before the step is still there after it.
C14_NothingRemoved ==
  [][ \A c \in Containers :
        (lastOp'.kind \in {"groups", "add", "entity"} /\ lastOp'.c = c) =>
          /\ IsPrefix(entities[c], entities'[c])
          /\ entities'[c] = IF lastOp'.kind = "groups" THEN entities[c]
                            ELSE Append(entities[c], lastOp'.e)
          /\ \A k \in AllKeys :
               /\ dict[c][k] # Absent => dict'[c][k] # Absent
               /\ dict[c][k].s \subseteq dict'[c][k].s ]_vars

\* C14 witness: the third add() found two entities in the list and keys in
\* the mapping, and evaluated a fold that added members to a bucket.
C14_Witness ==
  /\ lastOp.kind = "add" /\ lastOp.out = "ok"
  /\ Len(entities[lastOp.c]) = 3
  /\ dict[lastOp.c]["heat"] = SetOf({"e2", "e3"})
  /\ dict[lastOp.c]["u1"] # Absent

\* What the caller sees in the mapping it kept: the container's dict as it
\* is now when that is the object kept, else the object as it was returned.
HeldContents == IF held.oid = oid[held.c] THEN dict[held.c] ELSE held.seen

\* C15 as stated: a mapping returned by a groups read and kept by the caller
\* is not altered by later add() calls and groups reads.
C15_AsStated == held.tag = "held" => HeldContents = held.seen

\* C15 amended: the mapping returned by a groups read is the container's one
\* dict, which later folds update in place: the caller that kept it sees the
\* container's current mapping, loses no key or member it saw, and after
\* every later groups read that returns sees exactly what that read returned.
C15_HeldIsLive ==
  held.tag = "held" =>
    /\ held.oid = oid[held.c]
    /\ HeldContents = dict[held.c]
    /\ \A k \in AllKeys :
         /\ held.seen[k] # Absent => HeldContents[k] # Absent
         /\ held.seen[k].s \subseteq HeldContents[k].s
    /\ (ReadReturned /\ lastOp.c = held.c) => HeldContents = lastRet.val

\* C15 witness: the caller kept a mapping without the key "heat"; two adds
\* and a read later the kept mapping has e2 and e3 under it.
C15_Witness ==
  /\ held.tag = "held"
  /\ held.seen["heat"] = Absent
  /\ ReadReturned /\ lastOp.c = held.c
  /\ lastRet.val["heat"] = SetOf({"e2", "e3"})
  /\ HeldContents["heat"] = SetOf({"e2", "e3"})

\* The fold pending in container c is one that raises.
Stuck(c) == _groups[c].tag = "partial" /\ RaisesFor(c, _groups[c].entity)

\* C16: a groups read that raised leaves self._groups the partial of an
\* entity a grouping raises for; from then on no add() or groups read
\* changes self._groups, and every groups read raises and returns nothing.
C16_FailureKept ==
  /\ []((lastOp.kind = "groups" /\ lastOp.out = "raise") =>
          (Stuck(lastOp.c) /\ ~Force(lastOp.c).ok))
  /\ [][ \A c \in Containers :
           Stuck(c) =>
             /\ _groups'[c] = _groups[c]
             /\ (lastOp'.kind = "groups" /\ lastOp'.c = c) =>
                  (lastOp'.out = "raise" /\ lastRet' = NoRet) ]_vars

\* C16 witness: the fold of e2 raised in an add() and the groups read after
\* it raised again, called by "strict", with the partial of e2 still there.
C16_Witness ==
  /\ lastOp.kind = "groups" /\ lastOp.out = "raise"
  /\ added[lastOp.c] = <<"e2", "e1", "e3">>
  /\ _groups[lastOp.c] = Pending("e2")
  /\ lastOp.calls[Len(lastOp.calls)] = <<"strict", "e2">>

\* C17 as stated: a groups read that raises leaves the mapping as it was
\* before the read.
C17_AsStated ==
  [][ \A c \in Containers :
        (lastOp'.kind = "groups" /\ lastOp'.c = c /\ lastOp'.out = "raise") =>
          dict'[c] = dict[c] ]_vars

\* C18: every entity in a region's entity list has the region in its regions
\* list, and no region is twice in an entity's regions list.
C18_RegionBackReference ==
  /\ \A r \in Regions : \A e \in Range(regionEntities[r]) : r \in Range(entityRegions[e])
  /\ \A e \in Entities : NoRepeat(entityRegions[e])

\* C18 witness: e1 is three times in the entity list of R1, put there by a
\* construction and an add_entities call, and once in that of R2; its
\* regions list names R1 once and R2 once.
C18_Witness ==
  /\ lastOp.kind = "add_entities"
  /\ regionEntities["R1"] = <<"e1", "e1", "e1">>
  /\ "e1" \in Range(regionEntities["R2"])
  /\ Len(entityRegions["e1"]) = 2

====
